---- MODULE Spec2Model ----
(***************************************************************************)
(* Model of whisper_transcribe.py: the batch transcription script.         *)
(*                                                                         *)
(* Strings that the program formats or parses are sequences of one-letter  *)
(* strings.  A file name is the pair <<root, tail>> whose text is root     *)
(* followed by tail, so that os.path.splitext is the pair itself.          *)
(* Times are integers: the wall clock counts milliseconds, a value rounded *)
(* to two decimals counts hundredths (of a second, of a speed factor).     *)
(***************************************************************************)
EXTENDS Integers, Sequences, FiniteSets, TLC

\* ---------------------------------------------------------------- bounds
MaxEntries == 2
MaxTicks == 2
MaxSeconds == 7300

\* One step of the wall clock, in milliseconds.
TickMs == 4

\* ------------------------------------------------------- text primitives
Digits == <<"0", "1", "2", "3", "4", "5", "6", "7", "8", "9">>

IsDigit(c) == \E i \in 1..10 : Digits[i] = c

DigitValue(c) == (CHOOSE i \in 1..10 : Digits[i] = c) - 1

\* str(n) for n >= 0
RECURSIVE IntToStr(_)
IntToStr(n) ==
    IF n < 10 THEN <<Digits[n + 1]>>
    ELSE IntToStr(n \div 10) \o <<Digits[(n % 10) + 1]>>

\* f"{n:02d}" for n >= 0: at least two digits, zero padded
Pad2(n) == IF n < 10 THEN <<"0">> \o IntToStr(n) ELSE IntToStr(n)

\* s.split(":")
RECURSIVE Split(_)
Split(s) ==
    IF \A i \in 1..Len(s) : s[i] # ":" THEN <<s>>
    ELSE LET k == CHOOSE i \in 1..Len(s) :
                      s[i] = ":" /\ \A j \in 1..(i - 1) : s[j] # ":"
         IN  <<SubSeq(s, 1, k - 1)>> \o Split(SubSeq(s, k + 1, Len(s)))

\* int(s) succeeds on a non-empty run of decimal digits
IsInt(s) == Len(s) > 0 /\ \A i \in 1..Len(s) : IsDigit(s[i])

RECURSIVE ParseInt(_)
ParseInt(s) ==
    IF Len(s) = 0 THEN 0
    ELSE 10 * ParseInt(SubSeq(s, 1, Len(s) - 1)) + DigitValue(s[Len(s)])

\* round(p / q) to the nearest integer, ties to even (Python's round), q > 0
RoundDiv(p, q) ==
    LET f == p \div q
        r == p % q
    IN  IF 2 * r < q THEN f
        ELSE IF 2 * r > q THEN f + 1
        ELSE IF f % 2 = 0 THEN f ELSE f + 1

\* ------------------------------------------------------------ file names
VideoExts == {".mp4", ".avi", ".mov", ".mkv"}
AudioExts == {".wav", ".mp3", ".ogg", ".flac"}

\* str.lower() on the extensions that occur in the model
Lower(ext) ==
    CASE ext = ".WAV" -> ".wav"
      [] ext = ".MKV" -> ".mkv"
      [] OTHER -> ext

\* The value get_media_duration returns on an exception ("ошибка")
DurationError == <<"o", "s", "h", "i", "b", "k", "a">>
\* The value get_media_duration returns for another extension
DurationUnknown == <<"n", "e", " ", "o", "p", "r">>

\* ------------------------------------------------------------- durations
\* The MM:SS text built in get_media_duration from int(clip.duration)
MediaDurationText(total_seconds) ==
    LET minutes == total_seconds \div 60
        seconds == total_seconds % 60
    IN  Pad2(minutes) \o <<":">> \o Pad2(seconds)

\* duration_to_seconds with the minutes weighed 100 instead of 60
duration_to_seconds_centesimal(duration_str) ==
    LET parts == Split(duration_str)
    IN  IF Len(parts) = 2 /\ IsInt(parts[1]) /\ IsInt(parts[2])
        THEN ParseInt(parts[1]) * 100 + ParseInt(parts[2])
        ELSE 0

duration_to_seconds(duration_str) ==
    LET parts == Split(duration_str)
    IN  IF Len(parts) = 2 /\ IsInt(parts[1]) /\ IsInt(parts[2])
        THEN ParseInt(parts[1]) * 60 + ParseInt(parts[2])
        ELSE 0

\* format_seconds applied to a number whose integer part is total_seconds
format_seconds(total_seconds) ==
    LET hours == total_seconds \div 3600
        remainder == total_seconds % 3600
        minutes == remainder \div 60
        seconds == remainder % 60
    IN  IF hours > 0
        THEN Pad2(hours) \o <<":">> \o Pad2(minutes) \o <<":">> \o Pad2(seconds)
        ELSE Pad2(minutes) \o <<":">> \o Pad2(seconds)

\* int(x) of a non-negative value held in hundredths
IntOfHundredths(x) == x \div 100

\* ------------------------------------------------------------ the inputs
\* Directory entries the input folder may hold: name, whether the entry is
\* a regular file, and its size in bytes.
CandidateEntries ==
    { [name |-> <<"a", ".mp4">>, isfile |-> TRUE,  size |-> 1572864],
      [name |-> <<"a", ".WAV">>, isfile |-> TRUE,  size |-> 524288],
      [name |-> <<"n", ".txt">>, isfile |-> TRUE,  size |-> 10],
      [name |-> <<"d", ".MKV">>, isfile |-> FALSE, size |-> 0] }

\* The input folders of the model: at most MaxEntries entries
Directories == {d \in SUBSET CandidateEntries : Cardinality(d) <= MaxEntries}

\* os.listdir returns the entries in arbitrary order: every ordering of S
Orderings(S) ==
    {s \in [1..Cardinality(S) -> S] : \A i, j \in 1..Cardinality(S) :
                                         i # j => s[i] # s[j]}

\* int(clip.duration) of the media files of the model, in seconds
ProbedSeconds == {0, 3725}

\* --model on the command line ("None" when absent)
ModelArgs == {"None", "medium"}

\* psutil's available memory, in GB
RamChoices == {5}

\* No clip is ever closed by the script (lines 99, 119-121): a clip is
\* released when the runtime reclaims it, at once when its last reference
\* goes (reference counting) or not before the run is over.
Collectors == {"prompt", "deferred"}

\* What read_hotwords() returns: '' (no hotwords.txt) or the joined lines
HotwordChoices == {"", "w1, w2"}

\* ------------------------------------------------------------- the state
VARIABLES
    dirEntries,          \* the entries of input_folder, with each entry's facts
    args_model,          \* args.model
    pc,                  \* position of the script
    files_to_process,    \* the inventory
    cuda_available,      \* has_cuda() as read before the loop
    chosen_model,
    hotwords,
    output_folder,       \* TRUE once os.makedirs(output_folder) has run
    outFiles,            \* content of the output folder: {[name, content]}
    idx,                 \* enumerate(files_to_process, start=1)
    duration,            \* get_media_duration(media_file) of the current file
    now,                 \* time.time(), in ms since the script started
    spent,               \* ms the file being processed has spent in each
                         \* timed step (back to none when its outcome is in)
    start_time,          \* transcribe_file's start_time
    audio_path,          \* transcribe_file's audio_path
    device,              \* the device the current WhisperModel was built for
    elapsed_time,        \* what transcribe_file returned, in hundredths of s
    transcription,       \* what transcribe_file returned
    processed_files_info,
    failed_info,
    transcribeCalls,     \* media files transcribe_file was called with
    engineCalls,         \* the calls of WhisperModel(...).transcribe(...)
    probeFailed,         \* media files get_media_duration failed on
    collector,           \* how the runtime reclaims an unreferenced object
    openClips,           \* media clips opened and not yet released
    info_file,           \* lines of _transcription.info (<<>>: not written)
    infoWrites,          \* how many times write_info_file has run
    fmt_step,            \* the duration functions on their own: the step,
    fmt_seconds,         \*   the number of seconds given,
    fmt_via,             \*   the function that formatted it,
    fmt_text,            \*   the text it produced,
    fmt_parsed           \*   and what duration_to_seconds made of the text

vars == <<dirEntries, args_model, pc, files_to_process, cuda_available,
          chosen_model, hotwords, output_folder, outFiles, idx, duration, now,
          spent, start_time, audio_path, device, elapsed_time, transcription,
          processed_files_info, failed_info, transcribeCalls, engineCalls,
          probeFailed, collector, openClips, info_file, infoWrites, fmt_step,
          fmt_seconds, fmt_via, fmt_text, fmt_parsed>>

inputVars == <<dirEntries, args_model, collector>>
configVars == <<files_to_process, cuda_available, chosen_model, hotwords,
                output_folder>>
localVars == <<start_time, audio_path, device>>
resultVars == <<elapsed_time, transcription>>
listVars == <<processed_files_info, failed_info>>
callLogs == <<transcribeCalls, engineCalls>>
reportVars == <<info_file, infoWrites>>
fmtVars == <<fmt_step, fmt_seconds, fmt_via, fmt_text, fmt_parsed>>
runVars == <<pc, configVars, outFiles, idx, duration, now, spent, localVars,
             resultVars, listVars, callLogs, probeFailed, openClips,
             reportVars>>

\* --------------------------------------------------------------- helpers
\* is_supported_file without the os.path.isfile test
is_supported_file_any_entry(entry) ==
    Lower(entry.name[2]) \in VideoExts \cup AudioExts

is_supported_file(entry) ==
    /\ entry.isfile
    /\ Lower(entry.name[2]) \in VideoExts \cup AudioExts

suggest_model(ram_gb, use_cuda) ==
    IF use_cuda THEN "large"
    ELSE IF ram_gb >= 6 THEN "small"
    ELSE IF ram_gb >= 4 THEN "base"
    ELSE "tiny"

\* Lines 364-367: the names of the entries is_supported_file accepts
Eligible(entries) == {e.name : e \in {x \in entries : is_supported_file(x)}}

\* os.path.getsize(media_file)
SizeOf(name) == (CHOOSE e \in CandidateEntries : e.name = name).size

\* round(size / 1024 ** 2, 2), in hundredths of a MB
SizeMb(name) == RoundDiv(SizeOf(name) * 100, 1048576)

\* writing a file of the output folder creates or replaces it
PutFile(files, name, content) ==
    {f \in files : f.name # name} \cup {[name |-> name, content |-> content]}

\* Line 193, device="cuda" if has_cuda() else "cpu": the device follows the
\* answer has_cuda() gives when the model is loaded (cuda_now), whatever it
\* answered before the loop (cuda_before).
DeviceFor(cuda_before, cuda_now) == IF cuda_now THEN "cuda" ELSE "cpu"

\* A timer started before the copy step instead
TimerStartBeforeCopy(clock) == clock - spent["copy"]

\* Line 176: the timer starts when transcribe_file is entered
TimerStart(clock) == clock

\* round(end_time - start_time, 2): hundredths of a second from milliseconds
ElapsedSince(start, end) == RoundDiv(end - start, 10)

\* os.path.join(output_folder, f"{file_root}.txt")
TranscriptName(media) == <<media[1], ".txt">>

\* The division without its except ZeroDivisionError
SpeedRatioUnguarded(media_duration_sec, elapsed) ==
    IF elapsed = 0
    THEN [raised |-> TRUE, value |-> 0]
    ELSE [raised |-> FALSE, value |-> RoundDiv(media_duration_sec * 10000, elapsed)]

\* Lines 426-429 and round(speed, 2): media_duration_sec / elapsed_time with
\* ZeroDivisionError turned into 0; the value is in hundredths.
SpeedRatio(media_duration_sec, elapsed) ==
    IF elapsed = 0
    THEN [raised |-> FALSE, value |-> 0]
    ELSE [raised |-> FALSE, value |-> RoundDiv(media_duration_sec * 10000, elapsed)]

RECURSIVE SumField(_, _)
SumField(infos, field) ==
    IF Len(infos) = 0 THEN 0
    ELSE Head(infos)[field] + SumField(Tail(infos), field)

\* The success section: the header, then one block per processed file
SuccessSection(processed_info) ==
    <<[kind |-> "success_header"]>> \o
    [i \in 1..Len(processed_info) |->
        [kind |-> "success_entry",
         name |-> processed_info[i].name,
         path |-> processed_info[i].path,
         size_mb |-> processed_info[i].size_mb,
         duration |-> processed_info[i].duration,
         elapsed_time_sec |-> processed_info[i].elapsed_time_sec,
         elapsed_time_str |-> processed_info[i].elapsed_time_str,
         speed_x |-> processed_info[i].speed_x]]

\* The failures section, written under `if failed_info:`
FailureSection(failed) ==
    IF Len(failed) > 0
    THEN <<[kind |-> "failures_header"]>> \o
         [i \in 1..Len(failed) |->
            [kind |-> "failure_entry", name |-> failed[i].name,
             path |-> failed[i].path, reason |-> failed[i].reason]]
    ELSE <<>>

\* The statistics section
StatisticsSection(processed_info) ==
    <<[kind |-> "statistics_header"]>> \o
    IF Len(processed_info) > 0
    THEN LET total_media_duration == SumField(processed_info, "media_duration_sec")
             total_elapsed_time == SumField(processed_info, "elapsed_time_sec")
             average_speed == IF total_elapsed_time > 0
                              THEN RoundDiv(total_media_duration * 10000,
                                            total_elapsed_time)
                              ELSE 0
         IN  <<[kind |-> "statistics",
                total_media_duration |-> format_seconds(total_media_duration),
                total_elapsed_time |-> total_elapsed_time,
                total_elapsed_str |->
                    format_seconds(IntOfHundredths(total_elapsed_time)),
                average_speed |-> average_speed]>>
    ELSE <<[kind |-> "zero_processed"]>>

\* The lines write_info_file writes, in order; total_time_ms is the run time
\* and cuda what has_cuda() answers inside get_system_info().
write_info_file(hw, processed_info, failed, model_size, total_time_ms, cuda) ==
    <<[kind |-> "version_header"], [kind |-> "version", text |-> "v24"]>>
    \o SuccessSection(processed_info)
    \o FailureSection(failed)
    \o <<[kind |-> "parameters_header"],
         [kind |-> "parameters", engine |-> "faster-whisper",
          model_size |-> model_size, language |-> "ru", hotwords |-> hw],
         [kind |-> "system_header"],
         [kind |-> "system", cuda_available |-> cuda],
         [kind |-> "libraries_header"]>>
    \o StatisticsSection(processed_info)
    \o <<[kind |-> "explanation"],
         [kind |-> "total_time",
          seconds |-> RoundDiv(total_time_ms, 10),
          text |-> format_seconds(total_time_ms \div 1000)]>>

media_file == files_to_process[idx]
file_name == media_file
file_root == media_file[1]

\* The gate comparing with the other marker get_media_duration returns
IsProbeFailureOtherMarker(d) == d = DurationUnknown

\* The clips still open when the function that opened one returns: the
\* function does not close it and drops its only reference.
ClipLeftBehind(clips, kind, media) ==
    IF collector = "prompt" THEN clips
    ELSE clips \cup {[kind |-> kind, media |-> media]}

\* <root>_temp_audio.wav, where transcribe_file has the audio extracted
TempAudioName(media) == <<media[1], "_temp_audio.wav">>

\* Line 402: duration == "ошибка"
IsProbeFailure(d) == d = DurationError

\* The steps whose duration the model follows, and a file that spent none
TimedSteps == {"copy", "extract", "load", "engine"}
NoTime == [step \in TimedSteps |-> 0]

\* A loop that stops at the first file it has an outcome for
AfterFileStops == "finish"

\* where the loop goes after the current file
AfterFile == IF idx < Len(files_to_process) THEN "probe" ELSE "finish"

\* An except branch that prints the error and records nothing
RecordFailureSilent(reason) ==
    /\ failed_info' = failed_info
    /\ idx' = idx + 1
    /\ pc' = AfterFile
    /\ spent' = NoTime

\* the except branch of the loop (and the duration gate): one failure record
RecordFailure(reason) ==
    /\ failed_info' = Append(failed_info,
           [name |-> file_name, path |-> media_file, reason |-> reason])
    /\ idx' = idx + 1
    /\ pc' = AfterFile
    /\ spent' = NoTime

\* transcribe_file's locals are gone once it has returned or raised
LocalsDropped ==
    /\ start_time' = 0
    /\ audio_path' = <<>>
    /\ device' = "None"

\* ------------------------------------------------------------------ Init
\* The state every run starts in, before the inputs are known
Fresh ==
    /\ pc = "scan"
    /\ files_to_process = <<>>
    /\ cuda_available = FALSE
    /\ chosen_model = "None"
    /\ hotwords = "None"
    /\ output_folder = FALSE
    /\ outFiles = {}
    /\ idx = 0
    /\ duration = <<>>
    /\ now = 0
    /\ spent = NoTime
    /\ start_time = 0
    /\ audio_path = <<>>
    /\ device = "None"
    /\ elapsed_time = 0
    /\ transcription = <<>>
    /\ processed_files_info = <<>>
    /\ failed_info = <<>>
    /\ transcribeCalls = <<>>
    /\ engineCalls = <<>>
    /\ probeFailed = {}
    /\ openClips = {}
    /\ info_file = <<>>
    /\ infoWrites = 0

FmtIdle ==
    /\ fmt_step = "off"
    /\ fmt_seconds = 0
    /\ fmt_via = "None"
    /\ fmt_text = <<>>
    /\ fmt_parsed = 0

\* A run on the reference-counting runtime.  No step reads collector or
\* openClips, so the run goes the same way on any runtime.
Init ==
    /\ dirEntries \in Directories
    /\ args_model \in ModelArgs
    /\ collector = "prompt"
    /\ Fresh
    /\ FmtIdle

\* A run on either kind of runtime
ResInit ==
    /\ dirEntries \in Directories
    /\ args_model \in ModelArgs
    /\ collector \in Collectors
    /\ Fresh
    /\ FmtIdle

\* --------------------------------------------------------------- actions
\* The wall clock advances while the script sits in a timed step.
Tick ==
    /\ pc \in TimedSteps
    /\ now < MaxTicks * TickMs
    /\ now' = now + TickMs
    /\ spent' = [spent EXCEPT ![pc] = @ + TickMs]
    /\ UNCHANGED <<inputVars, fmtVars, configVars, localVars, resultVars,
                   listVars, callLogs, reportVars, probeFailed, openClips, pc,
                   outFiles, idx, duration>>

\* Lines 363-371: the inventory scan; exit() when nothing is eligible.
Scan ==
    /\ pc = "scan"
    /\ files_to_process' \in Orderings(Eligible(dirEntries))
    /\ pc' = IF Len(files_to_process') = 0 THEN "exit" ELSE "config"
    /\ UNCHANGED <<inputVars, fmtVars, cuda_available, chosen_model, hotwords,
                   output_folder, localVars, resultVars, listVars, callLogs,
                   reportVars, probeFailed, openClips, outFiles, idx,
                   duration, now, spent>>

\* Lines 372-389: resources are probed, the model is chosen, the output
\* folder is created, the lists are emptied and the hotwords are read.
SelectConfig ==
    /\ pc = "config"
    /\ \E ram_available \in RamChoices, cuda \in BOOLEAN, hw \in HotwordChoices :
          /\ cuda_available' = cuda
          /\ chosen_model' = IF args_model # "None" THEN args_model
                             ELSE suggest_model(ram_available, cuda)
          /\ hotwords' = hw
    /\ output_folder' = TRUE
    /\ processed_files_info' = <<>>
    /\ failed_info' = <<>>
    /\ idx' = 1
    /\ pc' = "probe"
    /\ UNCHANGED <<inputVars, fmtVars, files_to_process, localVars,
                   resultVars, callLogs, reportVars, probeFailed, openClips,
                   outFiles, duration, now, spent>>

\* Line 394, get_media_duration: MM:SS of the clip it opens, or the error
\* marker when the clip cannot be opened.
ProbeDuration ==
    /\ pc = "probe"
    /\ \/ /\ \E total_seconds \in ProbedSeconds :
                duration' = IF Lower(media_file[2]) \in VideoExts \cup AudioExts
                            THEN MediaDurationText(total_seconds)
                            ELSE DurationUnknown
          /\ openClips' = ClipLeftBehind(openClips, "duration", media_file)
          /\ UNCHANGED probeFailed
       \/ /\ duration' = DurationError
          /\ probeFailed' = probeFailed \cup {media_file}
          /\ UNCHANGED openClips
    /\ pc' = "copy"
    /\ UNCHANGED <<inputVars, fmtVars, configVars, localVars, resultVars,
                   listVars, callLogs, reportVars, outFiles, idx, now, spent>>

\* Lines 396-401: the source is copied; an exception is printed and dropped.
CopyFile ==
    /\ pc = "copy"
    /\ \/ outFiles' = PutFile(outFiles, file_name, <<"media", media_file>>)
       \/ UNCHANGED outFiles
    /\ pc' = "gate"
    /\ UNCHANGED <<inputVars, fmtVars, configVars, localVars, resultVars,
                   listVars, callLogs, reportVars, probeFailed, openClips,
                   idx, duration, now, spent>>

\* Lines 402-411 and 176-190: a failed probe is recorded and the file
\* skipped; otherwise transcribe_file is entered, starts its timer and
\* looks at the extension.
DurationGate ==
    /\ pc = "gate"
    /\ IF IsProbeFailure(duration)
       THEN /\ RecordFailure("duration probe failed")
            /\ UNCHANGED <<localVars, transcribeCalls>>
       ELSE /\ transcribeCalls' = Append(transcribeCalls, media_file)
            /\ IF Lower(media_file[2]) \in VideoExts
               THEN /\ pc' = "extract"
                    /\ start_time' = TimerStart(now)
                    /\ UNCHANGED <<audio_path, device, idx, failed_info,
                                   spent>>
               ELSE IF Lower(media_file[2]) \in AudioExts
               THEN /\ pc' = "load"
                    /\ start_time' = TimerStart(now)
                    /\ audio_path' = media_file
                    /\ UNCHANGED <<device, idx, failed_info, spent>>
               ELSE /\ RecordFailure("unsupported format")
                    /\ LocalsDropped
    /\ UNCHANGED <<inputVars, fmtVars, configVars, resultVars, reportVars,
                   probeFailed, openClips, outFiles, duration, now,
                   processed_files_info, engineCalls>>

\* Lines 180-184, extract_audio_from_video: the video clip is opened and its
\* audio track written to <root>_temp_audio.wav in the output folder, or the
\* clip cannot be opened and the exception ends the file.  Nothing removes
\* the temporary file afterwards (lines 208-210 are commented out).
ExtractAudio ==
    /\ pc = "extract"
    /\ \/ /\ audio_path' = TempAudioName(media_file)
          /\ outFiles' = PutFile(outFiles, audio_path', <<"audio", media_file>>)
          /\ openClips' = ClipLeftBehind(openClips, "video", media_file)
          /\ pc' = "load"
          /\ UNCHANGED <<start_time, device, idx, failed_info, spent>>
       \/ /\ RecordFailure("extraction failed")
          /\ LocalsDropped
          /\ UNCHANGED <<outFiles, openClips>>
    /\ UNCHANGED <<inputVars, fmtVars, configVars, resultVars, reportVars,
                   probeFailed, duration, now, processed_files_info,
                   callLogs>>

\* Line 193: the model is loaded for the device has_cuda() names at this
\* moment, or loading raises.
LoadModel ==
    /\ pc = "load"
    /\ \E cuda \in BOOLEAN :
          \/ /\ device' = DeviceFor(cuda_available, cuda)
             /\ pc' = "engine"
             /\ UNCHANGED <<start_time, audio_path, idx, failed_info, spent>>
          \/ /\ RecordFailure("model load failed")
             /\ LocalsDropped
    /\ UNCHANGED <<inputVars, fmtVars, configVars, resultVars, reportVars,
                   probeFailed, openClips, outFiles, duration, now,
                   processed_files_info, callLogs>>

\* Lines 199-213: the engine transcribes the audio; transcribe_file returns
\* the text and the rounded time since start_time, or the engine raises.
EngineTranscribe ==
    /\ pc = "engine"
    /\ engineCalls' = Append(engineCalls,
           [media |-> media_file, audio |-> audio_path, language |-> "ru",
            hotwords |-> hotwords, model_size |-> chosen_model,
            device |-> device])
    /\ \/ /\ transcription' = <<"text", media_file>>
          /\ elapsed_time' = ElapsedSince(start_time, now)
          /\ pc' = "write"
          /\ UNCHANGED <<idx, failed_info, spent>>
       \/ /\ RecordFailure("engine failed")
          /\ UNCHANGED <<transcription, elapsed_time>>
    /\ LocalsDropped
    /\ UNCHANGED <<inputVars, fmtVars, configVars, reportVars, probeFailed,
                   openClips, outFiles, duration, now, processed_files_info,
                   transcribeCalls>>

\* Lines 413-416: the transcript is written to <root>.txt; open() may raise
\* before the file exists, f.write() after it has been truncated.
WriteTranscript ==
    /\ pc = "write"
    /\ \/ /\ outFiles' = PutFile(outFiles, TranscriptName(media_file), transcription)
          /\ pc' = "metrics"
          /\ UNCHANGED <<idx, failed_info, spent>>
       \/ /\ RecordFailure("open failed")
          /\ UNCHANGED outFiles
       \/ /\ outFiles' = PutFile(outFiles, TranscriptName(media_file), <<"empty">>)
          /\ RecordFailure("write failed")
    /\ UNCHANGED <<inputVars, fmtVars, configVars, localVars, resultVars,
                   reportVars, probeFailed, openClips, duration, now,
                   processed_files_info, callLogs>>

\* Lines 418-447: the speed is computed and the success record appended; an
\* exception on the way (os.path.getsize, an unhandled division) is caught
\* by the loop's except and recorded as a failure.
Metrics ==
    /\ pc = "metrics"
    /\ LET media_duration_sec == duration_to_seconds(duration)
           speed == SpeedRatio(media_duration_sec, elapsed_time)
       IN  IF speed.raised
           THEN /\ RecordFailure("float division by zero")
                /\ UNCHANGED processed_files_info
           ELSE \/ /\ processed_files_info' = Append(processed_files_info,
                          [name |-> file_name,
                           path |-> media_file,
                           duration |-> duration,
                           media_duration_sec |-> media_duration_sec,
                           size_mb |-> SizeMb(media_file),
                           elapsed_time_sec |-> elapsed_time,
                           elapsed_time_str |->
                               format_seconds(IntOfHundredths(elapsed_time)),
                           speed_x |-> speed.value])
                   /\ idx' = idx + 1
                   /\ pc' = AfterFile
                   /\ spent' = NoTime
                   /\ UNCHANGED failed_info
                \/ /\ RecordFailure("getsize failed")
                   /\ UNCHANGED processed_files_info
    /\ UNCHANGED <<inputVars, fmtVars, configVars, localVars, resultVars,
                   reportVars, probeFailed, openClips, outFiles, duration,
                   now, callLogs>>

\* Lines 448-476: the total time is taken and write_info_file writes the
\* report into the output folder.
Finish ==
    /\ pc = "finish"
    /\ \E cuda \in BOOLEAN :
          info_file' = write_info_file(hotwords, processed_files_info,
                                       failed_info, chosen_model, now, cuda)
    /\ outFiles' = PutFile(outFiles, <<"_transcription", ".info">>, <<"report">>)
    /\ infoWrites' = infoWrites + 1
    /\ pc' = "done"
    /\ UNCHANGED <<inputVars, fmtVars, configVars, localVars, resultVars,
                   listVars, callLogs, probeFailed, openClips, idx, duration,
                   now, spent>>

\* One step of the script
ScriptStep ==
    \/ Scan
    \/ SelectConfig
    \/ ProbeDuration
    \/ CopyFile
    \/ DurationGate
    \/ ExtractAudio
    \/ LoadModel
    \/ EngineTranscribe
    \/ WriteTranscript
    \/ Metrics
    \/ Finish

Next ==
    \/ Tick
    \/ ScriptStep

Spec == Init /\ [][Next]_vars

\* The same run with the runtime's way of reclaiming clips left open
ResSpec == ResInit /\ [][Next]_vars

\* The script is sequential and blocks on nothing but its own calls, each
\* of which returns or raises: while a step can be taken, one is taken.
\* No step of the script reads the clock to decide where to go, so the
\* progress of the run is followed with the clock held still.
FairSpec == Init /\ [][ScriptStep]_vars /\ WF_vars(ScriptStep)

\* ------------------------------------- the duration functions on their own
\* A number of seconds is formatted by format_seconds or by the MM:SS code of
\* get_media_duration, and the text is given to duration_to_seconds.
FmtInit ==
    /\ dirEntries = {}
    /\ args_model = "None"
    /\ collector = "prompt"
    /\ Fresh
    /\ fmt_step = "input"
    /\ fmt_seconds \in 0..MaxSeconds
    /\ fmt_via = "None"
    /\ fmt_text = <<>>
    /\ fmt_parsed = 0

FormatWithFormatSeconds ==
    /\ fmt_step = "input"
    /\ fmt_text' = format_seconds(fmt_seconds)
    /\ fmt_via' = "format_seconds"
    /\ fmt_step' = "formatted"
    /\ UNCHANGED <<inputVars, runVars, fmt_seconds, fmt_parsed>>

FormatWithMediaDuration ==
    /\ fmt_step = "input"
    /\ fmt_text' = MediaDurationText(fmt_seconds)
    /\ fmt_via' = "get_media_duration"
    /\ fmt_step' = "formatted"
    /\ UNCHANGED <<inputVars, runVars, fmt_seconds, fmt_parsed>>

Reparse ==
    /\ fmt_step = "formatted"
    /\ fmt_parsed' = duration_to_seconds(fmt_text)
    /\ fmt_step' = "parsed"
    /\ UNCHANGED <<inputVars, runVars, fmt_seconds, fmt_via, fmt_text>>

FmtNext ==
    \/ FormatWithFormatSeconds
    \/ FormatWithMediaDuration
    \/ Reparse

FmtSpec == FmtInit /\ [][FmtNext]_vars

\* ------------------------------------------------------------ properties
LoopEnded == pc \in {"finish", "done"}

\* how many records of a list are about a file
RecordsOf(infos, path) == Cardinality({k \in 1..Len(infos) : infos[k].path = path})

\* position of a file in the inventory
PositionOf(path) == CHOOSE i \in 1..Len(files_to_process) : files_to_process[i] = path

\* C1: when the loop has ended, the success records and the failure records
\* together are as many as the inventory files, and every inventory file is
\* in exactly one record of the two lists.
C1_OneOutcomePerFile ==
    LoopEnded =>
        /\ Len(processed_files_info) + Len(failed_info) = Len(files_to_process)
        /\ \A i \in 1..Len(files_to_process) :
              RecordsOf(processed_files_info, files_to_process[i])
                + RecordsOf(failed_info, files_to_process[i]) = 1

\* a run of two files that ended with one success and one failure
C1_Witness ==
    /\ pc = "done"
    /\ Len(files_to_process) = 2
    /\ Len(processed_files_info) = 1
    /\ Len(failed_info) = 1

\* C2: a file whose duration probe failed is never given to transcribe_file
\* nor to the engine, has no success record, never has more than one failure
\* record, and has exactly one as soon as the loop has moved past it.
C2_ProbeFailureSkipsEngine ==
    \A f \in probeFailed :
        /\ \A k \in 1..Len(transcribeCalls) : transcribeCalls[k] # f
        /\ \A k \in 1..Len(engineCalls) : engineCalls[k].media # f
        /\ RecordsOf(processed_files_info, f) = 0
        /\ RecordsOf(failed_info, f) <= 1
        /\ (LoopEnded \/ PositionOf(f) < idx) => RecordsOf(failed_info, f) = 1
        /\ (~LoopEnded /\ PositionOf(f) = idx) => pc \in {"copy", "gate"}

\* the first of two files failed its probe and the loop is at the second
C2_Witness ==
    /\ Len(files_to_process) = 2
    /\ idx = 2
    /\ pc = "engine"
    /\ files_to_process[1] \in probeFailed
    /\ RecordsOf(failed_info, files_to_process[1]) = 1

\* the files the two lists hold records of
Recorded ==
    {processed_files_info[k].path : k \in 1..Len(processed_files_info)}
        \cup {failed_info[k].path : k \in 1..Len(failed_info)}

\* C3: the files get their outcomes one by one in inventory order whatever
\* fails, the report is written at most once and only when every file has
\* its outcome, and a run with a non-empty inventory does write it.
C3_BatchRunsToReport ==
    /\ [](pc \in {"probe", "copy", "gate", "extract", "load", "engine", "write",
                  "metrics"}
            => Recorded = {files_to_process[i] : i \in 1..(idx - 1)})
    /\ [](infoWrites <= 1)
    /\ [](infoWrites = 1 =>
            Recorded = {files_to_process[i] : i \in 1..Len(files_to_process)})
    /\ [][infoWrites' # infoWrites =>
            /\ pc = "finish"
            /\ idx = Len(files_to_process) + 1]_vars
    /\ (pc = "config" ~> infoWrites = 1)

\* the first file failed, the second one succeeded, the report is written
C3_Witness ==
    /\ pc = "done"
    /\ infoWrites = 1
    /\ Len(files_to_process) = 2
    /\ Len(failed_info) = 1
    /\ failed_info[1].path = files_to_process[1]
    /\ Len(processed_files_info) = 1
    /\ processed_files_info[1].path = files_to_process[2]

\* what the output folder holds under a name ("absent" when nothing)
ContentOf(name) ==
    IF \E f \in outFiles : f.name = name
    THEN (CHOOSE f \in outFiles : f.name = name).content
    ELSE <<"absent">>

\* C4: at the end of the run the output folder holds, for every file with a
\* success record, a copy of the source and <base name>.txt with the
\* transcript of that very file.
C4_SuccessHasCopyAndTranscript ==
    pc = "done" =>
        \A k \in 1..Len(processed_files_info) :
            LET f == processed_files_info[k].path
            IN  /\ ContentOf(f) = <<"media", f>>
                /\ ContentOf(<<f[1], ".txt">>) = <<"text", f>>

\* a line of a kind is in the report
HasLine(kind) == \E i \in 1..Len(info_file) : info_file[i].kind = kind

\* C5: the report always has the failures section: its header is there and,
\* when no file failed, an empty-state line follows it; with no success the
\* report says that zero files were processed.
C5_FailuresSectionAlwaysThere ==
    infoWrites > 0 =>
        /\ HasLine("failures_header")
        /\ Len(failed_info) = 0 =>
              \E i \in 1..(Len(info_file) - 1) :
                  /\ info_file[i].kind = "failures_header"
                  /\ info_file[i + 1].kind = "failures_empty"
        /\ Len(processed_files_info) = 0 => HasLine("zero_processed")

\* C6 as stated: whichever function formatted N seconds, duration_to_seconds
\* gives N back.
C6_RoundTripAlways ==
    fmt_step = "parsed" => fmt_parsed = fmt_seconds

\* C6 as amended: the MM:SS text of get_media_duration parses back to N for
\* every N, the text of format_seconds parses back to N when N < 3600.
C6_RoundTripOfTwoFields ==
    fmt_step = "parsed" =>
        /\ fmt_via = "get_media_duration" => fmt_parsed = fmt_seconds
        /\ (fmt_via = "format_seconds" /\ fmt_seconds < 3600)
              => fmt_parsed = fmt_seconds

\* an hour or more went through MM:SS (minutes above 59) and came back
C6_Witness ==
    /\ fmt_step = "parsed"
    /\ fmt_via = "get_media_duration"
    /\ fmt_seconds >= 3600
    /\ Len(fmt_text) = 5
    /\ fmt_parsed = fmt_seconds

\* C7: no success record has a negative speed, a success record with a zero
\* elapsed time has speed 0, and no file is failed for a division by zero.
C7_SpeedRatioGuarded ==
    /\ \A k \in 1..Len(processed_files_info) :
          /\ processed_files_info[k].speed_x >= 0
          /\ processed_files_info[k].elapsed_time_sec = 0
                => processed_files_info[k].speed_x = 0
    /\ \A k \in 1..Len(failed_info) :
          failed_info[k].reason # "float division by zero"

\* a file with a positive duration succeeded with a zero elapsed time
C7_Witness ==
    \E k \in 1..Len(processed_files_info) :
        /\ processed_files_info[k].elapsed_time_sec = 0
        /\ processed_files_info[k].media_duration_sec > 0
        /\ processed_files_info[k].speed_x = 0

\* no entry of the input folder is a regular file with a supported extension
NothingEligible ==
    \A e \in dirEntries :
        \/ ~e.isfile
        \/ e.name[2] \notin {".mp4", ".avi", ".mov", ".mkv", ".wav", ".mp3",
                             ".ogg", ".flac", ".WAV", ".MKV"}

\* C8: with no eligible entry the run only scans and exits: the output folder
\* is never created, nothing is written, the engine is never called and the
\* report is never written.
C8_NothingEligibleNothingDone ==
    NothingEligible =>
        /\ pc \in {"scan", "exit"}
        /\ ~output_folder
        /\ outFiles = {}
        /\ transcribeCalls = <<>>
        /\ engineCalls = <<>>
        /\ infoWrites = 0

\* the run has exited on a folder holding a text file and a directory
C8_Witness ==
    /\ pc = "exit"
    /\ Cardinality(dirEntries) = 2
    /\ ~output_folder

\* transcribe_file has returned for the current file
Returned == pc \in {"write", "metrics"}

\* C9 as stated: the elapsed time starts after the audio extraction (before
\* or after the model is loaded), so it holds no extraction time.
C9_ElapsedExcludesExtraction ==
    Returned =>
        \/ elapsed_time = RoundDiv(spent["engine"], 10)
        \/ elapsed_time = RoundDiv(spent["load"] + spent["engine"], 10)

\* C9 as amended: the elapsed time is the time of the whole transcribe_file
\* call, extraction, model load and engine call; the copy time is not in it.
C9_ElapsedCoversTranscribeFile ==
    Returned =>
        elapsed_time = RoundDiv(spent["extract"] + spent["load"] + spent["engine"], 10)

\* a video whose copy and whose extraction both took time
C9_Witness ==
    /\ pc = "metrics"
    /\ spent["copy"] > 0
    /\ spent["extract"] > 0
    /\ elapsed_time = 0

\* C10: every engine call uses the model, the hotwords and the device that
\* were decided before the loop.
C10_ConfigFixedForTheRun ==
    \A k \in 1..Len(engineCalls) :
        /\ engineCalls[k].model_size = chosen_model
        /\ engineCalls[k].hotwords = hotwords
        /\ engineCalls[k].device = IF cuda_available THEN "cuda" ELSE "cpu"

\* the loop is about to begin a file
IterationStarts == pc = "probe"

\* the files the loop has already been through
EarlierFiles == {files_to_process[i] : i \in 1..(idx - 1)}

\* C11: when an iteration of the loop starts, no clip opened for an earlier
\* file is still open and no temporary audio file of an earlier file is left
\* in the output folder.  (The transcript's file handle is closed inside
\* the step that writes it, by its with statement.)
C11_ResourcesReleasedPerFile ==
    IterationStarts =>
        /\ \A c \in openClips : c.media \notin EarlierFiles
        /\ \A f \in EarlierFiles :
              \A o \in outFiles : o.name # TempAudioName(f)

====
